---------------------------- MODULE Spec2Model ----------------------------
(***************************************************************************)
(* ReflectionAlbedo (moonray::shading) and its callers' view of it.        *)
(*                                                                         *)
(* Floats are fixed-point numbers.  cosTheta, roughness, the weight w and  *)
(* the intermediate if1/if2 have denominator One = (COMP-1) * Sub; every   *)
(* such value is dyadic, so the float products, sums, floor and ceil of    *)
(* rIndex and index are exact.  Table entries are integers in units of     *)
(* 1/Scale (five decimals, as written in the source); a value returned by  *)
(* lerp has denominator One * Scale.  cosTheta and roughness range over    *)
(* the non-negative values 0 .. 1 + MaxOver/(COMP-1).  cosTheta can also   *)
(* be the next float above such a value on the grid (cosUp): the product   *)
(* cosTheta * (COMP-1) is still exact, but the float sum with lIndex*COMP  *)
(* in index() rounds to 24 bits and can absorb that last bit.              *)
(*                                                                         *)
(* A read past the end of a table is undefined behaviour: the value read   *)
(* is any element of Garbage (a finite float or a NaN bit pattern).        *)
(*                                                                         *)
(* event is one rndr::TileSampleSpecialEvent object: its two members, the  *)
(* arguments its constructor was given, what its accessors last returned   *)
(* and how often the object itself invoked its callback.                   *)
(***************************************************************************)
EXTENDS Integers, Sequences, FiniteSets, TLC

VARIABLES tables, frame, event

vars == <<tables, frame, event>>

\* Bounds of the model.
SubBits == 1
MaxOver == 1
NumThreads == 2
MaxSampleId == 2
MaxTableLen == 3

\* static const size_t COMP = 33;
COMP == 33

\* Table entries are written with five decimals: 0.95384f is 95384.
Scale == 100000

\* Sub-steps per grid cell, float 1.0 in fixed point, largest input.
Sub == 2 ^ SubBits
One == (COMP - 1) * Sub
MaxIn == One + MaxOver * Sub

\* An IEEE-754 NaN held in a float (the only negative value of the model).
NaN == 0 - 1

\* ispc::MicrofacetDistribution: the two cases of the switch, and any other
\* value of the enum type.
MICROFACET_DISTRIBUTION_BECKMANN == "BECKMANN"
MICROFACET_DISTRIBUTION_GGX == "GGX"
MICROFACET_DISTRIBUTION_OTHER == "OTHER"
MicrofacetDistribution ==
  {MICROFACET_DISTRIBUTION_BECKMANN, MICROFACET_DISTRIBUTION_GGX,
   MICROFACET_DISTRIBUTION_OTHER}

\* mBeckmannE[COMP*COMP], row = roughness bucket, column = cosTheta bucket.
mBeckmannE ==
  <<
         0, 100000, 100000, 100000, 100000,  99780, 100000, 100000, 100000,  99920,  99644, 100000, 100000, 100000, 100000, 100000, 100000, 100000,  99789, 100000,  99721,  99592, 100000, 100000, 100000, 100000, 100000, 100000, 100000, 100000, 100000, 100000, 100000,
         0, 100000, 100000, 100000, 100000, 100000, 100000, 100000, 100000, 100000, 100000, 100000, 100000, 100000, 100000, 100000, 100000, 100000, 100000, 100000, 100000, 100000, 100000, 100000, 100000, 100000, 100000, 100000, 100000, 100000, 100000, 100000, 100000,
         0, 100000, 100000, 100000, 100000, 100000, 100000, 100000, 100000, 100000, 100000, 100000, 100000, 100000, 100000, 100000, 100000, 100000, 100000, 100000, 100000, 100000, 100000, 100000, 100000, 100000, 100000, 100000, 100000, 100000, 100000, 100000, 100000,
         0, 100000, 100000, 100000, 100000, 100000, 100000, 100000, 100000, 100000, 100000, 100000, 100000, 100000, 100000, 100000, 100000, 100000, 100000, 100000, 100000, 100000, 100000, 100000, 100000, 100000, 100000, 100000, 100000, 100000, 100000, 100000, 100000,
         0,  95384, 100000, 100000, 100000, 100000, 100000, 100000, 100000, 100000, 100000, 100000, 100000, 100000, 100000, 100000, 100000, 100000, 100000, 100000, 100000, 100000, 100000, 100000, 100000, 100000, 100000, 100000, 100000, 100000, 100000, 100000, 100000,
         0,  92372,  97904, 100000, 100000, 100000, 100000, 100000, 100000, 100000, 100000, 100000, 100000, 100000, 100000, 100000, 100000, 100000, 100000, 100000, 100000, 100000, 100000, 100000, 100000, 100000, 100000, 100000, 100000, 100000, 100000, 100000, 100000,
         0,  91041,  94333,  98162,  99952, 100000, 100000, 100000, 100000, 100000, 100000, 100000, 100000, 100000, 100000, 100000, 100000, 100000, 100000, 100000, 100000, 100000, 100000, 100000, 100000, 100000, 100000, 100000, 100000, 100000, 100000, 100000, 100000,
         0,  91129,  92556,  95107,  97892,  99694, 100000, 100000, 100000, 100000, 100000, 100000, 100000, 100000, 100000, 100000, 100000, 100000, 100000, 100000, 100000, 100000, 100000, 100000, 100000, 100000, 100000, 100000, 100000, 100000, 100000, 100000, 100000,
         0,  91444,  91255,  93227,  95312,  97481,  98993,  99849, 100000, 100000, 100000, 100000, 100000, 100000, 100000, 100000, 100000, 100000, 100000, 100000, 100000, 100000, 100000, 100000, 100000, 100000, 100000, 100000, 100000, 100000, 100000, 100000, 100000,
         0,  92211,  90971,  92234,  93333,  95325,  96955,  98484,  99377,  99906, 100000, 100000, 100000, 100000, 100000, 100000, 100000, 100000, 100000, 100000, 100000, 100000, 100000, 100000, 100000, 100000, 100000, 100000, 100000, 100000, 100000, 100000, 100000,
         0,  92105,  90951,  90438,  91948,  93266,  95063,  96493,  97624,  98773,  99243,  99771, 100000, 100000, 100000, 100000, 100000, 100000, 100000, 100000, 100000, 100000, 100000, 100000, 100000, 100000, 100000, 100000, 100000, 100000, 100000, 100000, 100000,
         0,  93319,  90727,  90564,  91429,  92192,  93309,  94482,  95808,  96911,  98118,  98649,  99368,  99612,  99970, 100000, 100000, 100000, 100000, 100000, 100000, 100000, 100000, 100000, 100000, 100000, 100000, 100000, 100000, 100000, 100000, 100000, 100000,
         0,  93668,  92183,  90433,  90694,  91307,  92097,  92911,  93944,  94866,  96369,  97152,  97981,  98739,  99202,  99612,  99842, 100000, 100000, 100000, 100000, 100000, 100000, 100000, 100000, 100000, 100000, 100000, 100000, 100000, 100000, 100000, 100000,
         0,  94068,  92066,  90915,  90752,  90666,  91034,  91983,  92714,  93627,  94461,  95583,  96388,  97285,  97897,  98508,  99061,  99297,  99718,  99822,  99968, 100000, 100000, 100000, 100000, 100000, 100000, 100000, 100000, 100000, 100000,  99989, 100000,
         0,  93685,  92307,  91332,  90610,  90211,  90634,  90993,  91704,  92289,  93010,  93981,  94592,  95523,  96451,  97098,  97817,  98269,  98884,  99313,  99535,  99652,  99917, 100000, 100000, 100000, 100000, 100000, 100000, 100000,  99977,  99991, 100000,
         0,  94354,  93049,  91650,  90942,  90444,  90122,  90528,  90767,  91449,  91912,  92378,  93187,  93836,  95003,  95643,  96406,  97037,  97697,  98229,  98645,  98919,  99455,  99548,  99795,  99904,  99946, 100000, 100000, 100000,  99983,  99983, 100000,
         0,  92864,  92993,  91421,  90439,  90278,  89667,  89745,  90254,  90401,  91168,  91447,  91952,  92479,  93186,  93970,  94794,  95461,  96055,  96701,  97568,  98037,  98558,  98906,  99204,  99525,  99706,  99882,  99896,  99982,  99949, 100000, 100000,
         0,  94134,  93047,  92460,  91805,  90357,  89555,  89539,  90060,  89829,  89897,  90588,  90864,  91491,  91867,  92284,  92984,  93915,  94173,  95283,  96038,  96478,  97284,  97816,  98285,  98730,  99203,  99438,  99703,  99840,  99906, 100000, 100000,
         0,  93970,  93186,  91736,  91642,  90312,  90217,  89881,  88999,  89109,  89861,  89683,  90024,  90476,  90548,  90946,  91602,  92163,  92532,  93427,  94093,  95076,  95650,  96516,  96969,  97509,  98103,  98638,  99034,  99415,  99703,  99893,  99999,
         0,  93786,  93542,  92989,  91328,  90596,  90439,  89262,  89356,  89447,  88988,  89292,  89436,  88992,  89722,  90024,  90081,  90797,  91038,  91756,  92515,  93182,  94015,  94533,  95353,  96023,  96793,  97464,  98132,  98622,  99183,  99613,  99949,
         0,  94443,  93077,  92609,  91117,  90976,  90006,  90093,  88895,  88555,  88430,  88049,  88549,  88704,  88626,  88682,  89273,  89344,  89761,  90479,  90890,  91386,  91942,  92718,  93375,  94233,  94941,  95794,  96411,  97350,  98190,  98942,  99695,
         0,  93508,  93540,  92171,  91698,  90640,  89434,  89166,  89003,  88416,  88173,  87728,  88032,  87905,  88074,  88275,  88495,  88196,  88492,  88593,  88965,  89366,  90142,  90646,  91413,  92338,  92900,  93720,  94604,  95660,  96626,  97628,  98898,
         0,  94417,  93808,  92522,  91873,  91110,  89636,  89362,  89040,  88969,  88624,  87711,  87650,  87487,  87396,  87030,  86887,  87312,  87215,  87263,  87421,  87836,  88164,  88744,  89232,  89919,  90606,  91468,  92376,  93345,  94327,  95530,  97056,
         0,  93061,  93999,  92784,  91504,  90673,  89685,  89212,  88725,  87726,  87727,  86730,  86857,  86801,  86327,  86186,  86301,  85704,  85903,  85987,  86322,  86245,  86653,  86854,  87137,  87570,  88304,  88836,  89629,  90842,  91498,  92872,  94125,
         0,  94020,  92956,  92790,  91331,  90878,  89462,  89373,  88645,  87900,  88045,  86844,  86406,  86277,  85831,  85669,  85060,  84845,  84685,  84478,  84610,  84417,  84707,  84441,  84812,  85063,  85570,  86002,  86959,  87359,  87973,  89003,  90187,
         0,  93565,  92840,  92265,  91277,  90805,  90266,  89373,  88649,  88348,  86852,  86962,  86407,  85354,  85201,  84430,  84254,  84003,  83880,  83396,  83359,  82894,  82758,  83039,  82446,  82401,  82796,  83160,  83134,  83877,  84109,  84834,  85321,
         0,  93583,  92829,  92043,  91376,  90027,  90277,  88562,  87706,  87212,  87339,  86195,  85319,  84522,  84761,  83767,  83249,  83167,  82650,  82197,  81516,  80997,  81149,  80556,  80448,  80116,  79751,  79893,  79723,  79686,  79696,  79587,  80117,
         0,  93485,  92132,  91838,  91080,  90168,  89926,  88129,  88158,  87115,  86300,  85717,  84708,  84031,  83737,  83160,  82348,  81770,  81402,  80412,  80176,  79349,  79124,  78569,  77854,  77212,  76819,  75935,  75692,  75453,  74926,  74598,  74344,
         0,  92745,  92349,  91308,  90742,  90013,  88996,  88032,  87345,  86447,  85764,  85116,  84721,  83343,  82514,  81702,  81552,  80746,  79830,  78783,  77908,  77524,  76946,  75850,  75182,  74300,  73469,  72574,  71566,  70887,  69941,  69119,  68411,
         0,  92318,  91646,  91232,  89345,  90016,  89156,  87970,  86990,  86053,  85274,  84124,  83532,  81901,  81431,  80664,  80004,  78883,  78104,  76692,  76395,  75487,  74615,  73551,  72453,  71371,  69621,  68780,  67518,  65975,  64748,  63431,  62765,
         0,  91507,  91887,  90499,  90142,  88454,  88050,  87180,  86054,  84918,  84150,  83514,  82115,  81438,  80240,  79440,  78172,  77451,  76345,  75091,  74144,  73153,  71656,  70717,  69353,  67631,  65776,  64283,  63075,  61418,  59615,  58340,  57106,
         0,  90244,  89541,  89880,  88588,  87825,  87301,  86399,  85419,  84005,  82768,  82092,  80912,  79819,  78739,  77739,  76942,  75860,  74301,  73097,  71739,  70185,  68879,  67060,  66043,  64048,  62229,  60280,  58766,  56803,  54814,  53070,  51701,
         0,  90428,  89554,  89357,  88006,  87192,  85875,  85599,  83462,  83299,  81917,  80572,  79145,  78616,  77224,  75349,  74356,  73141,  71580,  70483,  69308,  67259,  65518,  63796,  62117,  60444,  58483,  56250,  54098,  51956,  50107,  48495,  46446
  >>

\* mGGXE[COMP*COMP], row = roughness bucket, column = cosTheta bucket.
mGGXE ==
  <<
         0, 100000, 100000, 100000, 100000, 100000, 100000, 100000, 100000, 100000, 100000, 100000, 100000, 100000, 100000, 100000, 100000, 100000, 100000, 100000, 100000, 100000, 100000, 100000, 100000, 100000, 100000, 100000, 100000, 100000, 100000, 100000, 100000,
         0, 100000, 100000, 100000, 100000, 100000, 100000, 100000, 100000, 100000, 100000, 100000, 100000, 100000, 100000, 100000, 100000, 100000, 100000, 100000, 100000,  99973, 100000, 100000, 100000, 100000, 100000, 100000, 100000, 100000, 100000, 100000, 100000,
         0,  98761,  99844, 100000, 100000, 100000, 100000, 100000, 100000, 100000, 100000, 100000, 100000, 100000, 100000, 100000, 100000, 100000, 100000, 100000, 100000, 100000, 100000, 100000, 100000, 100000, 100000, 100000, 100000, 100000, 100000, 100000, 100000,
         0,  94614,  98345,  99383,  99774,  99862, 100000, 100000, 100000, 100000, 100000, 100000, 100000, 100000, 100000, 100000, 100000, 100000, 100000, 100000, 100000, 100000, 100000, 100000, 100000, 100000, 100000, 100000, 100000, 100000, 100000, 100000, 100000,
         0,  88296,  95154,  97741,  98698,  99329,  99560,  99787,  99856,  99907,  99912,  99983,  99985, 100000, 100000, 100000, 100000, 100000, 100000, 100000, 100000, 100000, 100000, 100000, 100000, 100000,  99998, 100000, 100000,  99994,  99995, 100000, 100000,
         0,  84597,  91149,  94714,  96925,  97859,  98610,  98971,  99274,  99481,  99585,  99671,  99732,  99842,  99883,  99942,  99962, 100000,  99968,  99981,  99973,  99970,  99984, 100000,  99986, 100000,  99993, 100000, 100000,  99991,  99991, 100000, 100000,
         0,  82443,  87043,  91170,  94271,  95931,  97118,  97902,  98358,  98730,  98961,  99244,  99369,  99455,  99565,  99692,  99741,  99859,  99847,  99842,  99846,  99944,  99950,  99914,  99989,  99956,  99948,  99963,  99980,  99985,  99987,  99995, 100000,
         0,  81909,  84686,  87943,  91015,  93712,  94963,  96091,  97019,  97587,  97949,  98371,  98665,  98780,  99133,  99099,  99312,  99411,  99548,  99646,  99642,  99743,  99795,  99853,  99851,  99864,  99908,  99935,  99960,  99970,  99966,  99979, 100000,
         0,  81940,  83133,  85457,  88055,  90547,  92506,  94044,  95087,  96057,  96824,  97366,  97621,  98011,  98389,  98515,  98709,  98951,  98994,  99214,  99377,  99446,  99472,  99582,  99662,  99759,  99793,  99797,  99862,  99911,  99936,  99971,  99999,
         0,  81852,  82207,  84101,  85853,  88006,  89833,  91658,  93062,  94162,  95122,  95779,  96298,  96910,  97237,  97640,  97846,  98202,  98347,  98601,  98847,  98945,  99104,  99123,  99235,  99427,  99492,  99623,  99635,  99717,  99845,  99927,  99987,
         0,  81056,  81921,  82164,  83990,  85764,  87696,  89427,  90621,  92080,  92926,  93960,  94700,  95468,  95994,  96421,  96772,  97182,  97591,  97717,  98062,  98194,  98596,  98543,  98798,  98955,  98995,  99142,  99316,  99433,  99572,  99638,  99888,
         0,  81708,  80955,  82100,  83394,  84099,  85746,  87065,  88423,  89606,  91007,  91762,  92957,  93552,  94409,  95064,  95448,  95949,  96415,  96644,  97060,  97493,  97686,  98006,  97990,  98337,  98545,  98561,  98822,  98873,  99055,  99229,  99330,
         0,  81980,  81689,  81155,  81990,  82872,  84109,  85469,  86425,  87514,  89072,  89771,  90658,  91800,  92481,  93194,  93736,  94514,  94726,  95272,  95793,  96077,  96522,  96849,  97014,  97460,  97418,  97755,  97983,  98151,  98301,  98415,  98555,
         0,  81977,  81467,  80953,  81807,  81888,  82653,  83930,  84579,  85937,  86825,  87985,  88718,  89825,  90482,  91187,  91933,  92432,  93264,  93670,  94186,  94845,  95070,  95438,  95833,  96062,  96456,  96594,  96792,  96998,  97067,  97336,  97642,
         0,  81589,  81562,  81469,  81091,  81523,  81912,  82740,  83571,  84018,  84979,  86101,  86549,  87400,  88495,  89155,  89880,  90404,  91182,  91991,  92380,  92771,  93334,  93759,  94271,  94448,  94692,  95112,  95267,  95611,  95690,  95981,  96251,
         0,  80940,  81600,  80984,  81076,  81157,  80872,  81690,  82149,  82658,  83418,  84114,  84700,  85501,  86712,  87225,  87875,  88429,  89045,  89667,  90018,  90386,  91380,  91519,  92033,  92348,  92717,  93144,  93494,  93678,  93970,  94271,  94510,
         0,  79618,  80937,  80415,  79721,  80166,  79920,  80071,  81039,  80863,  82129,  82455,  83292,  83717,  84267,  84905,  85740,  86205,  86603,  87028,  88032,  88291,  88816,  89247,  89554,  90054,  90267,  90923,  91183,  91480,  91784,  92144,  92473,
         0,  80315,  80604,  80839,  80267,  79861,  79089,  79528,  79913,  80045,  80207,  80929,  81108,  81849,  82287,  82485,  83176,  83890,  83847,  84599,  85266,  85466,  86113,  86599,  86901,  87355,  87945,  88219,  88649,  88850,  89240,  89830,  90000,
         0,  80230,  79895,  79135,  79422,  78700,  79023,  79063,  78080,  78562,  79283,  79040,  79416,  79855,  79707,  80179,  80706,  80915,  81104,  81649,  82002,  82850,  83133,  83779,  84002,  84317,  84668,  85204,  85574,  85983,  86406,  86806,  87235,
         0,  79026,  79314,  79421,  78381,  77967,  78322,  77571,  77575,  77544,  77409,  77701,  77621,  77064,  77857,  77911,  77844,  78388,  78345,  78787,  79328,  79704,  80288,  80281,  80888,  81075,  81566,  82008,  82339,  82698,  83140,  83464,  84101,
         0,  79456,  77825,  78117,  76967,  77222,  76681,  76810,  75915,  75655,  75593,  75082,  75475,  75334,  75260,  75119,  75658,  75495,  75839,  76323,  76352,  76476,  76800,  77093,  77293,  77788,  78104,  78445,  78457,  79135,  79406,  79693,  80436,
         0,  77637,  78047,  76689,  76454,  75667,  74993,  74898,  74611,  74137,  73801,  73129,  73211,  73118,  73116,  73060,  73121,  72626,  72914,  72842,  72898,  73155,  73517,  73574,  73872,  74250,  74372,  74711,  74888,  75233,  75765,  76122,  76365,
         0,  76913,  76589,  75467,  75029,  74578,  73398,  73108,  72921,  72843,  72415,  71549,  71225,  70742,  70646,  70149,  69833,  69938,  69923,  69750,  69774,  69767,  69843,  70156,  70247,  70421,  70648,  70774,  71180,  71292,  71446,  71795,  72179,
         0,  74800,  75308,  74227,  73256,  72815,  71876,  71196,  70905,  69855,  69791,  68587,  68442,  68213,  67788,  67384,  67382,  66757,  66716,  66585,  66758,  66532,  66780,  66658,  66625,  66679,  66683,  66776,  66835,  67282,  67216,  67736,  67853,
         0,  74344,  73417,  72677,  71498,  71223,  69738,  69498,  68638,  68043,  67752,  66636,  65939,  65837,  65347,  64829,  64052,  63946,  63489,  63317,  63236,  63001,  63092,  62790,  62696,  62699,  62868,  62644,  63019,  62756,  62844,  62970,  63288,
         0,  72171,  71312,  70971,  69773,  69304,  68404,  67581,  66822,  66215,  64643,  64533,  63952,  62919,  62571,  61657,  61287,  61163,  60659,  60043,  60056,  59613,  59314,  59531,  59097,  58653,  58887,  58707,  58312,  58693,  58313,  58769,  58768,
         0,  70441,  69851,  68953,  67907,  66470,  66519,  64720,  63870,  62979,  62773,  61570,  60607,  60026,  59848,  59096,  58486,  58225,  57697,  57144,  56465,  56027,  56087,  55532,  55602,  55249,  54832,  54709,  54598,  54351,  54184,  54134,  54273,
         0,  68966,  67571,  66732,  65594,  64478,  63961,  62358,  61918,  60635,  59775,  59020,  57982,  57364,  56813,  56074,  55415,  54887,  54446,  53826,  53434,  52649,  52505,  52210,  51579,  51277,  51195,  50514,  50502,  50326,  49879,  49953,  49877,
         0,  66681,  65937,  64702,  63533,  62367,  61175,  59841,  59082,  57918,  57191,  56382,  55842,  54560,  53646,  52800,  52479,  52077,  51320,  50320,  49712,  49475,  49148,  48407,  48096,  47871,  47474,  46980,  46506,  46342,  45971,  45802,  45606,
         0,  64732,  63242,  62413,  60357,  60198,  59127,  57660,  56489,  55434,  54392,  53386,  52663,  51371,  50742,  49963,  49469,  48512,  47991,  47011,  46808,  46357,  45838,  45362,  44792,  44437,  43621,  43344,  42984,  42421,  42137,  41664,  41707,
         0,  62252,  61498,  59817,  58823,  56956,  56126,  54888,  53585,  52425,  51400,  50707,  49569,  48895,  47918,  47300,  46269,  45649,  45106,  44037,  43635,  43121,  42357,  41911,  41321,  40625,  39953,  39712,  39427,  38964,  38337,  38152,  37943,
         0,  59474,  57969,  57584,  55757,  54637,  53605,  52271,  51127,  49754,  48528,  47783,  46801,  45806,  45006,  44208,  43486,  42926,  41969,  41277,  40500,  39650,  39280,  38256,  38112,  37369,  36920,  36316,  36168,  35525,  34964,  34579,  34303,
         0,  57758,  56217,  55254,  53528,  52106,  50656,  49792,  47830,  47319,  45925,  44927,  43787,  43241,  42233,  41142,  40254,  39635,  38720,  38202,  37763,  36690,  36002,  35406,  34894,  34297,  33854,  33175,  32604,  32019,  31625,  31480,  30903
  >>

\* mBeckmannOneMinusEavg[COMP].
mBeckmannOneMinusEavg ==
  <<
        35,      0,      0,      0,      0,     13,     40,     82,    151,    244,    398,    585,    845,   1183,   1617,   2135,   2798,   3557,   4480,   5489,   6719,   8088,   9632,  11434,  13464,  15585,  17984,  20522,  23245,  26100,  29115,  32208,  35467
  >>

\* mGGXOneMinusEavg with its last entry mistyped as 6.28370f.
mGGXOneMinusEavgTypo ==
  <<
         0,      0,      0,     14,     75,    214,    443,    791,   1247,   1862,   2647,   3597,   4817,   6207,   7844,   9731,  11854,  14172,  16804,  19558,  22590,  25718,  29005,  32423,  35949,  39430,  42952,  46477,  49911,  53271,  56573,  59744, 628370
  >>

\* mGGXOneMinusEavg[COMP].
mGGXOneMinusEavg ==
  <<
         0,      0,      0,     14,     75,    214,    443,    791,   1247,   1862,   2647,   3597,   4817,   6207,   7844,   9731,  11854,  14172,  16804,  19558,  22590,  25718,  29005,  32423,  35949,  39430,  42952,  46477,  49911,  53271,  56573,  59744,  62837
  >>

\* The four static const arrays as they sit in memory.
ConstTables ==
  [mBeckmannE |-> mBeckmannE, mGGXE |-> mGGXE,
   mBeckmannOneMinusEavg |-> mBeckmannOneMinusEavg,
   mGGXOneMinusEavg |-> mGGXOneMinusEavg]

\* Declared length of each array: float m...E[COMP*COMP], float m...Eavg[COMP].
TableSize ==
  [mBeckmannE |-> COMP * COMP, mGGXE |-> COMP * COMP,
   mBeckmannOneMinusEavg |-> COMP, mGGXOneMinusEavg |-> COMP]

TableNames == {"mBeckmannE", "mGGXE", "mBeckmannOneMinusEavg", "mGGXOneMinusEavg"}

(***************************************************************************)
(* Pure helpers                                                            *)
(***************************************************************************)
Min(a, b) == IF a < b THEN a ELSE b

\* floor and ceil of a fixed-point float x (denominator One), as integers.
Floor(x) == x \div One
Ceil(x) == 0 - ((0 - x) \div One)

\* floor(log2(m)) of a positive integer m: the binade of a float m/One.
Binade(m) == CHOOSE b \in 0 .. 30 : 2 ^ b <= m /\ m < 2 ^ (b + 1)

\* The float a + b, for an integer-valued a and a float that is b (up =
\* FALSE) or the next float above b (up = TRUE).  a + b itself is exact; the
\* extra unit in the last place of b survives the rounding only when the sum
\* is in b's binade (it is half an ulp of the sum one binade up, and the tie
\* rounds to the even a + b; it is less than half an ulp further up).
FloatSum(a, b, up) ==
  [v |-> a + b,
   up |-> up /\ (a + b = 0 \/ (b > 0 /\ Binade(a + b) = Binade(b)))]

\* ceil of the float x.v, or of the next float above it.
CeilFloat(x) == IF x.up THEN Floor(x.v) + 1 ELSE Ceil(x.v)

\* What a load from a table can produce once the index is past the end.
Garbage == {0, Scale, NaN}

\* name[idx] read from memory mem: the entry, or garbage past the end.
Load(mem, name, idx) ==
  IF idx < TableSize[name] THEN {mem[name][idx + 1]} ELSE Garbage

\* scene_rdl2::math::lerp(v0, v1, t) = (1 - t) * v0 + t * v1; a NaN operand
\* makes the result NaN even when its factor is 0.
lerp(v0, v1, t) ==
  IF v0 = NaN \/ v1 = NaN THEN NaN ELSE (One - t) * v0 + t * v1

\* rIndex(roughness, weight): i = roughness * (COMP-1); indexI = floor(i);
\* weight = i - indexI; returns indexI.
rIndexBug(roughness) ==
  LET i == roughness * (COMP - 1)
      indexI == Floor(i)
  IN  [weight |-> i - indexI * One, index |-> indexI + 1]
rIndexRound(roughness) ==
  LET i == roughness * (COMP - 1)
      indexI == Floor(i + One \div 2)
  IN  [weight |-> i - indexI * One, index |-> indexI]
rIndex(roughness) ==
  LET i == roughness * (COMP - 1)
      indexI == Floor(i)
  IN  [weight |-> i - indexI * One, index |-> indexI]

\* index(cosTheta, roughness, w, iLow, iHigh) after rIndex returned lIndex;
\* cosTheta is the float cosTheta/One, or the next float above it (cosUp).
indexFloorPlusOne(cosTheta, cosUp, lIndex) ==
  LET hIndex == Min(lIndex + 1, COMP * COMP - 1)
      if1 == FloatSum(lIndex * COMP * One, cosTheta * (COMP - 1), cosUp)
      if2 == FloatSum(hIndex * COMP * One, cosTheta * (COMP - 1), cosUp)
  IN  [hIndex |-> hIndex, iLow |-> Floor(if1.v) + 1, iHigh |-> Floor(if2.v) + 1]
indexRowClamp(cosTheta, cosUp, lIndex) ==
  LET hIndex == Min(lIndex + 1, COMP - 1)
      if1 == FloatSum(lIndex * COMP * One, cosTheta * (COMP - 1), cosUp)
      if2 == FloatSum(hIndex * COMP * One, cosTheta * (COMP - 1), cosUp)
  IN  [hIndex |-> hIndex, iLow |-> CeilFloat(if1), iHigh |-> CeilFloat(if2)]
index(cosTheta, cosUp, lIndex) ==
  LET hIndex == Min(lIndex + 1, COMP * COMP - 1)
      if1 == FloatSum(lIndex * COMP * One, cosTheta * (COMP - 1), cosUp)
      if2 == FloatSum(hIndex * COMP * One, cosTheta * (COMP - 1), cosUp)
  IN  [hIndex |-> hIndex, iLow |-> CeilFloat(if1), iHigh |-> CeilFloat(if2)]

\* const size_t iHigh = min(iLow+1, COMP-1) of oneMinusAvg.
highIndex1DUnclamped(iLow) == iLow + 1
highIndex1D(iLow) == Min(iLow + 1, COMP - 1)

\* The table selected by the switch of E / oneMinusAvg ("none": no case).
switchEDefaultGGX(type) ==
  IF type = MICROFACET_DISTRIBUTION_BECKMANN THEN "mBeckmannE" ELSE "mGGXE"
switchE(type) ==
  IF type = MICROFACET_DISTRIBUTION_BECKMANN THEN "mBeckmannE"
  ELSE IF type = MICROFACET_DISTRIBUTION_GGX THEN "mGGXE"
  ELSE "none"
switchOneMinusAvg(type) ==
  IF type = MICROFACET_DISTRIBUTION_BECKMANN THEN "mBeckmannOneMinusEavg"
  ELSE IF type = MICROFACET_DISTRIBUTION_GGX THEN "mGGXOneMinusEavg"
  ELSE "none"

\* The values the switch can leave in e, given the locals w, iLow, iHigh.
switchValuesSwapped(mem, name, iLow, iHigh, w) ==
  IF name = "none" THEN {0}
  ELSE {lerp(b, a, w) : a \in Load(mem, name, iLow), b \in Load(mem, name, iHigh)}
switchValues(mem, name, iLow, iHigh, w) ==
  IF name = "none" THEN {0}
  ELSE {lerp(a, b, w) : a \in Load(mem, name, iLow), b \in Load(mem, name, iHigh)}

\* The values a whole call of E can return over memory mem.
EValues(mem, type, cosTheta, cosUp, roughness) ==
  LET r == rIndex(roughness)
      ix == index(cosTheta, cosUp, r.index)
  IN  switchValues(mem, switchE(type), ix.iLow, ix.iHigh, r.weight)

\* The values a whole call of oneMinusAvg can return over memory mem.
oneMinusAvgValues(mem, type, roughness) ==
  LET r == rIndex(roughness)
  IN  switchValues(mem, switchOneMinusAvg(type), r.index,
                   highIndex1D(r.index), r.weight)

(***************************************************************************)
(* State: the tables in memory and one call frame per thread               *)
(***************************************************************************)
Threads == 1 .. NumThreads

\* Locals of a thread that is not inside a call (w, iLow, iHigh, hIndex are
\* uninitialised in the code until rIndex / index write them).
IdleFrame ==
  [pc |-> "idle", op |-> "none", type |-> MICROFACET_DISTRIBUTION_OTHER,
   cosTheta |-> 0, cosUp |-> FALSE, roughness |-> 0,
   w |-> 0, hIndex |-> 0, iLow |-> 0, iHigh |-> 0, e |-> 0, reads |-> {}]

\* No TileSampleSpecialEvent constructed yet.
NoEvent ==
  [constructed |-> FALSE, argTable |-> <<>>, argCallBack |-> "none",
   mTileSampleIdTable |-> <<>>, mCallBack |-> "none",
   called |-> "none", tableResult |-> <<>>, callBackResult |-> "none",
   invocations |-> 0]

Init ==
  /\ tables = ConstTables
  /\ frame = [t \in Threads |-> IdleFrame]
  /\ event = NoEvent

\* A caller enters E(type, cosTheta, roughness): float e = 0.0f is set at
\* line 108, before the switch.
CallE(t, Types, Cos, Rough) ==
  /\ frame[t].pc = "idle"
  /\ \E type \in Types, c \in Cos, r \in Rough :
       frame' = [frame EXCEPT ![t] =
                   [IdleFrame EXCEPT !.pc = "rIndex", !.op = "E", !.type = type,
                                     !.cosTheta = c.v, !.cosUp = c.up,
                                     !.roughness = r]]
  /\ UNCHANGED <<tables, event>>

\* A caller enters oneMinusAvg(type, roughness).
CallOneMinusAvg(t, Types, Rough) ==
  /\ frame[t].pc = "idle"
  /\ \E type \in Types, r \in Rough :
       frame' = [frame EXCEPT ![t] =
                   [IdleFrame EXCEPT !.pc = "rIndex", !.op = "oneMinusAvg",
                                     !.type = type, !.roughness = r]]
  /\ UNCHANGED <<tables, event>>

\* rIndex runs: writes the caller's local w and returns the bucket, which
\* index keeps as lIndex and oneMinusAvg as iLow.
RIndexStepShared(t) ==
  /\ frame[t].pc = "rIndex"
  /\ LET r == rIndex(frame[t].roughness)
     IN  frame' = [u \in Threads |->
                     IF u = t
                     THEN [frame[u] EXCEPT !.pc = "high", !.w = r.weight,
                                           !.iLow = r.index]
                     ELSE [frame[u] EXCEPT !.w = r.weight]]
  /\ UNCHANGED <<tables, event>>
RIndexStep(t) ==
  /\ frame[t].pc = "rIndex"
  /\ LET r == rIndex(frame[t].roughness)
     IN  frame' = [frame EXCEPT ![t].pc = "high", ![t].w = r.weight,
                                ![t].iLow = r.index]
  /\ UNCHANGED <<tables, event>>

\* The rest of index(): hIndex, if1, if2 and the two ceilings.
IndexStep(t) ==
  /\ frame[t].pc = "high"
  /\ frame[t].op = "E"
  /\ LET ix == index(frame[t].cosTheta, frame[t].cosUp, frame[t].iLow)
     IN  frame' = [frame EXCEPT ![t].pc = "switch", ![t].hIndex = ix.hIndex,
                                ![t].iLow = ix.iLow, ![t].iHigh = ix.iHigh]
  /\ UNCHANGED <<tables, event>>

\* Line 129 of oneMinusAvg.
HighIndexStep(t) ==
  /\ frame[t].pc = "high"
  /\ frame[t].op = "oneMinusAvg"
  /\ frame' = [frame EXCEPT ![t].pc = "switch",
                            ![t].iHigh = highIndex1D(frame[t].iLow)]
  /\ UNCHANGED <<tables, event>>

\* The switch and the return: the selected table is read at iLow and iHigh
\* and e is the lerp of the two; no case selected leaves e = 0.0f.
SwitchReturn(t, name) ==
  /\ frame[t].pc = "switch"
  /\ \E v \in switchValues(tables, name, frame[t].iLow, frame[t].iHigh, frame[t].w) :
       frame' = [frame EXCEPT ![t].pc = "done", ![t].e = v,
                              ![t].reads = IF name = "none" THEN {}
                                           ELSE {<<name, frame[t].iLow>>,
                                                 <<name, frame[t].iHigh>>}]

SwitchECached(t) ==
  /\ frame[t].op = "E"
  /\ SwitchReturn(t, switchE(frame[t].type))
  /\ tables' = IF switchE(frame[t].type) = "none" \/ frame'[t].e = NaN
                  \/ frame[t].iLow >= COMP * COMP
               THEN tables
               ELSE [tables EXCEPT ![switchE(frame[t].type)][frame[t].iLow + 1] =
                        frame'[t].e \div One]
  /\ UNCHANGED event
SwitchE(t) ==
  /\ frame[t].op = "E"
  /\ SwitchReturn(t, switchE(frame[t].type))
  /\ UNCHANGED <<tables, event>>

SwitchOneMinusAvg(t) ==
  /\ frame[t].op = "oneMinusAvg"
  /\ SwitchReturn(t, switchOneMinusAvg(frame[t].type))
  /\ UNCHANGED <<tables, event>>

\* The caller takes the returned e; the frame of the call is gone.
Return(t) ==
  /\ frame[t].pc = "done"
  /\ frame' = [frame EXCEPT ![t] = IdleFrame]
  /\ UNCHANGED <<tables, event>>

\* Inputs of the sequential specification: every fixed-point value, and for
\* cosTheta also the next float above each grid sample j/(COMP-1).
Inputs == 0 .. MaxIn
CosInputs ==
  {[v |-> c, up |-> FALSE] : c \in Inputs}
    \cup {[v |-> c, up |-> TRUE] : c \in {x \in Inputs : x % Sub = 0}}

Next ==
  \/ CallE(1, MicrofacetDistribution, CosInputs, Inputs)
  \/ CallOneMinusAvg(1, MicrofacetDistribution, Inputs)
  \/ RIndexStep(1)
  \/ IndexStep(1)
  \/ HighIndexStep(1)
  \/ SwitchE(1)
  \/ SwitchOneMinusAvg(1)
  \/ Return(1)

Spec == Init /\ [][Next]_vars

\* Inputs of the concurrent specification: cosTheta = 1.0, and a roughness
\* with a weight above 0 and roughness = 1.0 with weight 0.
ConcCos == {[v |-> One, up |-> FALSE]}
ConcRough == {1, One}

\* What a thread inside a call can do next.
ThreadStep(t) ==
  \/ RIndexStep(t)
  \/ IndexStep(t)
  \/ HighIndexStep(t)
  \/ SwitchE(t)
  \/ SwitchOneMinusAvg(t)
  \/ Return(t)

\* Rendering threads call E and oneMinusAvg with no synchronisation.
NextConc ==
  \E t \in Threads :
     \/ CallE(t, MicrofacetDistribution, ConcCos, ConcRough)
     \/ CallOneMinusAvg(t, MicrofacetDistribution, ConcRough)
     \/ RIndexStep(t)
     \/ IndexStep(t)
     \/ HighIndexStep(t)
     \/ SwitchE(t)
     \/ SwitchOneMinusAvg(t)
     \/ Return(t)

SpecConc == Init /\ [][NextConc]_vars

(***************************************************************************)
(* rndr::TileSampleSpecialEvent                                            *)
(***************************************************************************)
\* UIntTable values a caller passes: every sequence of at most MaxTableLen
\* sample ids, unsorted and with repetitions.
SampleIds == 0 .. MaxSampleId
UIntTables == UNION {[1 .. n -> SampleIds] : n \in 0 .. MaxTableLen}

\* SpecialEventCallBack values a caller passes (two distinct functions).
SpecialEventCallBacks == {"callBackA", "callBackB"}

\* s without the later occurrences of an element.
Dedup(s) ==
  LET F[i \in 0 .. Len(s)] ==
        IF i = 0 THEN <<>>
        ELSE IF \E j \in 1 .. i - 1 : s[j] = s[i] THEN F[i - 1]
        ELSE Append(F[i - 1], s[i])
  IN  F[Len(s)]

\* The constructor: mTileSampleIdTable(std::move(tileSampleIdTable)) copies
\* the const argument, mCallBack(callBack) copies the function; empty body.
TileSampleSpecialEventDedup(tileSampleIdTable, cb) ==
  /\ ~event.constructed
  /\ event' = [event EXCEPT !.constructed = TRUE,
                            !.argTable = tileSampleIdTable,
                            !.argCallBack = cb,
                            !.mTileSampleIdTable = Dedup(tileSampleIdTable),
                            !.mCallBack = cb]
  /\ UNCHANGED <<tables, frame>>
TileSampleSpecialEvent(tileSampleIdTable, cb) ==
  /\ ~event.constructed
  /\ event' = [event EXCEPT !.constructed = TRUE,
                            !.argTable = tileSampleIdTable,
                            !.argCallBack = cb,
                            !.mTileSampleIdTable = tileSampleIdTable,
                            !.mCallBack = cb]
  /\ UNCHANGED <<tables, frame>>

\* const UIntTable &table() const { return mTileSampleIdTable; }
table ==
  /\ event.constructed
  /\ event' = [event EXCEPT !.called = "table",
                            !.tableResult = event.mTileSampleIdTable]
  /\ UNCHANGED <<tables, frame>>

\* const SpecialEventCallBack &callBack() const { return mCallBack; }
callBack ==
  /\ event.constructed
  /\ event' = [event EXCEPT !.called = "callBack",
                            !.callBackResult = event.mCallBack]
  /\ UNCHANGED <<tables, frame>>

NextEvent ==
  \/ \E tileSampleIdTable \in UIntTables, cb \in SpecialEventCallBacks :
        TileSampleSpecialEvent(tileSampleIdTable, cb)
  \/ table
  \/ callBack

SpecEvent == Init /\ [][NextEvent]_vars

(***************************************************************************)
(* Properties                                                              *)
(***************************************************************************)
\* The frame of the caller of the sequential specification.
caller == frame[1]

Supported(type) ==
  type \in {MICROFACET_DISTRIBUTION_BECKMANN, MICROFACET_DISTRIBUTION_GGX}

\* x is k/(COMP-1) for a k in 0..COMP-1; GridIndex(x) is that k.
OnGrid(x) == x <= One /\ x % Sub = 0
GridIndex(x) == x \div Sub

InRange(x) == 0 <= x /\ x <= One

\* The float cosTheta of frame fr is in [0,1].
InRangeCos(fr) == InRange(fr.cosTheta) /\ (fr.cosUp => fr.cosTheta < One)

\* A table entry as a returned float (denominator One * Scale).
Entry(name, idx) == One * ConstTables[name][idx + 1]

Returned(t, op) == frame[t].pc = "done" /\ frame[t].op = op

\* C1: for both supported variants and all grid indices k, j in 0..COMP-1,
\* E at roughness = k/(COMP-1), cosTheta = j/(COMP-1) returns exactly the
\* entry k*COMP + j of the variant's 2-D table.
C1_GridAlbedoIsEntry ==
  (Returned(1, "E") /\ Supported(caller.type)
     /\ OnGrid(caller.cosTheta) /\ ~caller.cosUp /\ OnGrid(caller.roughness))
  => caller.e = Entry(switchE(caller.type),
                      GridIndex(caller.roughness) * COMP + GridIndex(caller.cosTheta))

\* C2: for both supported variants and every k in 0..COMP-1, oneMinusAvg at
\* roughness = k/(COMP-1) returns exactly entry k of the variant's 1-D table
\* with weight 0; oneMinusAvg(Beckmann, 0.0) = 0.00035 and
\* oneMinusAvg(GGX, 1.0) = 0.62837.
C2_GridEnergyDeficitIsEntry ==
  (Returned(1, "oneMinusAvg") /\ Supported(caller.type) /\ OnGrid(caller.roughness))
  => /\ caller.w = 0
     /\ caller.e = Entry(switchOneMinusAvg(caller.type), GridIndex(caller.roughness))
     /\ (caller.type = MICROFACET_DISTRIBUTION_BECKMANN /\ caller.roughness = 0)
          => caller.e = One * 35
     /\ (caller.type = MICROFACET_DISTRIBUTION_GGX /\ caller.roughness = One)
          => caller.e = One * 62837

\* oneMinusAvg(GGX, 1.0) has returned the last entry of mGGXOneMinusEavg.
C2_Witness ==
  /\ Returned(1, "oneMinusAvg")
  /\ caller.type = MICROFACET_DISTRIBUTION_GGX
  /\ caller.roughness = One
  /\ caller.iLow = COMP - 1
  /\ caller.e = One * 62837

\* C3: every table access of E and oneMinusAvg is in bounds, whatever the
\* inputs: a 2-D index is in 0..COMP*COMP-1 and a 1-D index in 0..COMP-1.
C3_AllReadsInBounds ==
  \A t \in Threads : \A rd \in frame[t].reads :
     0 <= rd[2] /\ rd[2] < TableSize[rd[1]]

\* C4: for both supported variants and cosTheta, roughness in [0,1], the value
\* E returns is the convex combination, with weight w in [0,1), of the table
\* entries it reads, and lies between the smaller and the larger of them.
C4_AlbedoIsConvexCombination ==
  (Returned(1, "E") /\ Supported(caller.type)
     /\ InRangeCos(caller) /\ InRange(caller.roughness))
  => /\ 0 <= caller.w /\ caller.w < One
     /\ caller.iLow < COMP * COMP /\ caller.iHigh < COMP * COMP
     /\ LET name == switchE(caller.type)
            a == ConstTables[name][caller.iLow + 1]
            b == ConstTables[name][caller.iHigh + 1]
        IN  /\ caller.e = (One - caller.w) * a + caller.w * b
            /\ One * Min(a, b) <= caller.e
            /\ caller.e <= One * (a + b - Min(a, b))

\* C5: for a variant that is neither Beckmann nor GGX, E returns 0.0 for every
\* cosTheta and roughness and oneMinusAvg returns 0.0 for every roughness,
\* and neither reads a table entry.
C5_UnsupportedVariantIsZero ==
  \A t \in Threads :
     (frame[t].pc = "done" /\ ~Supported(frame[t].type))
     => frame[t].e = 0 /\ frame[t].reads = {}

\* E returned for an unsupported variant with roughness above 1.0.
C5_Witness ==
  /\ Returned(1, "E")
  /\ ~Supported(caller.type)
  /\ caller.roughness > One
  /\ caller.iHigh >= COMP * COMP
  /\ caller.e = 0

\* The values the call in frame fr returns when it runs alone over mem.
AloneValues(mem, fr) ==
  IF fr.op = "E" THEN EValues(mem, fr.type, fr.cosTheta, fr.cosUp, fr.roughness)
  ELSE oneMinusAvgValues(mem, fr.type, fr.roughness)

\* C6 as stated: in each 2-D table every entry is at most the entry one row
\* below it in the same column, so E(variant, c, r1) <= E(variant, c, r2)
\* whenever r1 <= r2 in [0,1].
C6_AlbedoNonDecreasingInRoughness ==
  (Returned(1, "E") /\ Supported(caller.type)
     /\ InRangeCos(caller) /\ InRange(caller.roughness))
  => /\ \A k \in 0 .. COMP - 2, j \in 0 .. COMP - 1 :
          tables[switchE(caller.type)][(k + 1) * COMP + j + 1]
            >= tables[switchE(caller.type)][k * COMP + j + 1]
     /\ \A r2 \in caller.roughness .. One :
          \A v \in EValues(tables, caller.type, caller.cosTheta, caller.cosUp, r2) :
             v /= NaN /\ caller.e <= v

\* C6 amended: the entries are non-decreasing in roughness only in column 0
\* (cosTheta = 0), where all are 0.0, so E(variant, 0, r1) <= E(variant, 0, r2)
\* whenever r1 <= r2 in [0,1); in every other column the last row's entry is
\* below the first row's.
C6_AlbedoNonDecreasingOnlyInColumnZero ==
  /\ \A name \in {"mBeckmannE", "mGGXE"} :
        /\ \A k \in 0 .. COMP - 2 :
              tables[name][(k + 1) * COMP + 1] >= tables[name][k * COMP + 1]
        /\ \A j \in 1 .. COMP - 1 :
              tables[name][(COMP - 1) * COMP + j + 1] < tables[name][j + 1]
  /\ (Returned(1, "E") /\ Supported(caller.type)
        /\ caller.cosTheta = 0 /\ ~caller.cosUp /\ caller.roughness < One)
     => \A r2 \in caller.roughness .. One - 1 :
           \A v \in EValues(tables, caller.type, 0, FALSE, r2) :
              v /= NaN /\ caller.e <= v

\* E returned at cosTheta = 0 from between two roughness samples.
C6_Witness ==
  /\ Returned(1, "E")
  /\ caller.type = MICROFACET_DISTRIBUTION_BECKMANN
  /\ caller.cosTheta = 0
  /\ ~caller.cosUp
  /\ caller.roughness < One
  /\ caller.w > 0
  /\ caller.iLow = 3 * COMP
  /\ caller.e = 0

\* C7 as stated: in each 1-D table entry k+1 >= entry k for every k in
\* 0..COMP-2, so oneMinusAvg(variant, r1) <= oneMinusAvg(variant, r2)
\* whenever r1 <= r2 in [0,1].
C7_EnergyDeficitNonDecreasing ==
  (Returned(1, "oneMinusAvg") /\ Supported(caller.type) /\ InRange(caller.roughness))
  => /\ \A k \in 0 .. COMP - 2 :
          tables[switchOneMinusAvg(caller.type)][k + 2]
            >= tables[switchOneMinusAvg(caller.type)][k + 1]
     /\ \A r2 \in caller.roughness .. One :
          \A v \in oneMinusAvgValues(tables, caller.type, r2) : caller.e <= v

\* The first roughness from which a variant's 1-D table is non-decreasing:
\* entry 0 of mBeckmannOneMinusEavg (0.00035) is above entry 1 (0.00000).
MonotoneFrom(type) ==
  IF type = MICROFACET_DISTRIBUTION_BECKMANN THEN 1 ELSE 0

\* C7 amended: entry k+1 >= entry k for every k in 0..COMP-2 of
\* mGGXOneMinusEavg and every k in 1..COMP-2 of mBeckmannOneMinusEavg, whose
\* entry 0 is above its entry 1; so oneMinusAvg(variant, r1) <=
\* oneMinusAvg(variant, r2) whenever r1 <= r2 in [0,1] for GGX and in
\* [1/(COMP-1), 1] for Beckmann.
C7_EnergyDeficitNonDecreasingPastFirst ==
  /\ \A type \in {MICROFACET_DISTRIBUTION_BECKMANN, MICROFACET_DISTRIBUTION_GGX} :
        \A k \in MonotoneFrom(type) .. COMP - 2 :
           tables[switchOneMinusAvg(type)][k + 2]
             >= tables[switchOneMinusAvg(type)][k + 1]
  /\ tables.mBeckmannOneMinusEavg[1] > tables.mBeckmannOneMinusEavg[2]
  /\ (Returned(1, "oneMinusAvg") /\ Supported(caller.type)
        /\ MonotoneFrom(caller.type) * Sub <= caller.roughness
        /\ caller.roughness <= One)
     => \A r2 \in caller.roughness .. One :
           \A v \in oneMinusAvgValues(tables, caller.type, r2) :
              v /= NaN /\ caller.e <= v

\* oneMinusAvg(Beckmann, r) returned from between two samples, above 0.0.
C7_Witness ==
  /\ Returned(1, "oneMinusAvg")
  /\ caller.type = MICROFACET_DISTRIBUTION_BECKMANN
  /\ caller.roughness >= Sub
  /\ caller.roughness < One
  /\ caller.w > 0
  /\ caller.e > 0

\* C8: mBeckmannE and mGGXE hold COMP*COMP = 1089 entries, mBeckmannOneMinusEavg
\* and mGGXOneMinusEavg hold COMP = 33, and every entry lies in [0.0, 1.0].
C8_TablesFullAndInUnitInterval ==
  /\ COMP * COMP = 1089
  /\ Len(tables.mBeckmannE) = 1089
  /\ Len(tables.mGGXE) = 1089
  /\ Len(tables.mBeckmannOneMinusEavg) = 33
  /\ Len(tables.mGGXOneMinusEavg) = 33
  /\ \A name \in TableNames :
        /\ Len(tables[name]) = TableSize[name]
        /\ \A i \in 1 .. Len(tables[name]) :
              0 <= tables[name][i] /\ tables[name][i] <= Scale

\* A query has read the last entry of a 2-D table.
C8_Witness ==
  /\ Returned(1, "E")
  /\ <<"mGGXE", COMP * COMP - 1>> \in caller.reads
  /\ caller.e = One * tables.mGGXE[COMP * COMP]

\* C9: after any sequence of queries the four tables hold their initial
\* contents, and a returned value is one the same arguments give over the
\* constant tables.
C9_QueriesLeaveTablesUnchanged ==
  /\ tables = ConstTables
  /\ (caller.pc = "done") => caller.e \in AloneValues(ConstTables, caller)

\* An interpolating E has returned and the tables are as initialised.
C9_Witness ==
  /\ Returned(1, "E")
  /\ Supported(caller.type)
  /\ caller.w > 0
  /\ caller.e > 0
  /\ caller.e % One /= 0
  /\ tables = ConstTables

\* C10: under every interleaving of the threads' steps each query returns a
\* value it returns when run alone with the same arguments, and a thread
\* inside a call always has its next step enabled.
C10_ConcurrentQueriesIndependent ==
  \A t \in Threads :
     /\ (frame[t].pc = "done") => frame[t].e \in AloneValues(ConstTables, frame[t])
     /\ (frame[t].pc /= "idle") => ENABLED ThreadStep(t)

\* Two threads are inside E at once with different weights, one already
\* returned.
C10_Witness ==
  \E t, u \in Threads :
     /\ t /= u
     /\ Returned(t, "E")
     /\ frame[t].w > 0
     /\ frame[u].op = "E"
     /\ frame[u].pc = "switch"
     /\ frame[u].w /= frame[t].w

\* floor(roughness * (COMP-1)) of a fixed-point roughness.
RoughBucket(roughness) == roughness \div Sub

\* ceil(cosTheta * (COMP-1)) of the float cosTheta v/One, or of the next
\* float above it (up).
CeilCos(v, up) == IF up THEN v \div Sub + 1 ELSE 0 - ((0 - v) \div Sub)

\* C11: when cosTheta and roughness are both in [0,1], ends included, the
\* flattened indices iLow and iHigh of E are both in 0..COMP*COMP-1.
C11_ClampedInputsIndexInBounds ==
  (caller.op = "E" /\ caller.pc \in {"switch", "done"}
     /\ InRangeCos(caller) /\ InRange(caller.roughness))
  => /\ 0 <= caller.iLow /\ caller.iLow <= COMP * COMP - 1
     /\ 0 <= caller.iHigh /\ caller.iHigh <= COMP * COMP - 1

\* C12: for every roughness in [0,1] oneMinusAvg reads iLow =
\* floor(roughness*(COMP-1)) and iHigh = min(iLow+1, COMP-1), both in
\* 0..COMP-1; iHigh = iLow+1 when iLow < COMP-1, iHigh = iLow = COMP-1 only at
\* roughness = 1.0; the result is the lerp of the two entries with weight
\* w = roughness*(COMP-1) - iLow.
C12_EnergyDeficitIndicesAndLerp ==
  (Returned(1, "oneMinusAvg") /\ InRange(caller.roughness))
  => /\ caller.iLow = RoughBucket(caller.roughness)
     /\ caller.iLow \in 0 .. COMP - 1
     /\ caller.iHigh \in 0 .. COMP - 1
     /\ caller.iHigh = IF caller.iLow < COMP - 1 THEN caller.iLow + 1 ELSE caller.iLow
     /\ (caller.iLow = COMP - 1) <=> (caller.roughness = One)
     /\ caller.w = caller.roughness * (COMP - 1) - caller.iLow * One
     /\ Supported(caller.type)
          => /\ caller.reads = {<<switchOneMinusAvg(caller.type), caller.iLow>>,
                                <<switchOneMinusAvg(caller.type), caller.iHigh>>}
             /\ caller.e =
                  (One - caller.w) * tables[switchOneMinusAvg(caller.type)][caller.iLow + 1]
                  + caller.w * tables[switchOneMinusAvg(caller.type)][caller.iHigh + 1]

\* oneMinusAvg returned from just below roughness = 1.0: the last two entries.
C12_Witness ==
  /\ Returned(1, "oneMinusAvg")
  /\ caller.type = MICROFACET_DISTRIBUTION_GGX
  /\ caller.roughness = One - 1
  /\ caller.iLow = COMP - 2
  /\ caller.iHigh = COMP - 1
  /\ caller.w > 0

\* C13: for every in-range input the two entries E interpolates are in
\* adjacent rows and the same cosTheta column: iHigh = iLow + COMP, iLow is
\* (row rLow, column c) and iHigh is (row rLow+1, column c) for one c.
C13_AlbedoEntriesSameColumn ==
  (Returned(1, "E") /\ InRangeCos(caller) /\ InRange(caller.roughness))
  => /\ caller.iHigh = caller.iLow + COMP
     /\ \E c \in 0 .. COMP - 1 :
          /\ caller.iLow = RoughBucket(caller.roughness) * COMP + c
          /\ caller.iHigh = (RoughBucket(caller.roughness) + 1) * COMP + c

\* C14: E selects the cosTheta column by ceiling: for in-range inputs iLow =
\* rLow*COMP + ceil(cosTheta*(COMP-1)), and two queries with the same variant
\* and roughness whose cosTheta lie in the same interval
\* (j/(COMP-1), (j+1)/(COMP-1)] return the same value.
C14_AlbedoColumnIsCeiling ==
  (Returned(1, "E") /\ InRangeCos(caller) /\ InRange(caller.roughness))
  => /\ caller.iLow = RoughBucket(caller.roughness) * COMP
                        + CeilCos(caller.cosTheta, caller.cosUp)
     /\ \A c2 \in CosInputs :
          (CeilCos(c2.v, c2.up) = CeilCos(caller.cosTheta, caller.cosUp))
          => EValues(tables, caller.type, c2.v, c2.up, caller.roughness)
               = AloneValues(tables, caller)

\* C15: for every roughness in [0,1] rIndex returns rLow =
\* floor(roughness*(COMP-1)) in 0..COMP-1 and a weight w = roughness*(COMP-1)
\* - rLow with 0 <= w < 1; rLow = COMP-1 only at roughness = 1.0, with w = 0.
C15_RIndexBucketAndWeight ==
  \A t \in Threads :
     (frame[t].pc = "high" /\ InRange(frame[t].roughness))
     => /\ frame[t].iLow = RoughBucket(frame[t].roughness)
        /\ frame[t].iLow \in 0 .. COMP - 1
        /\ 0 <= frame[t].w /\ frame[t].w < One
        /\ frame[t].iLow * One + frame[t].w = frame[t].roughness * (COMP - 1)
        /\ (frame[t].iLow = COMP - 1)
             => (frame[t].roughness = One /\ frame[t].w = 0)

\* rIndex has returned the last bucket to index(), at roughness = 1.0.
C15_Witness ==
  /\ caller.pc = "high"
  /\ caller.op = "E"
  /\ caller.roughness = One
  /\ caller.iLow = COMP - 1
  /\ caller.w = 0

\* C16: in index() hIndex = min(rLow+1, COMP*COMP-1), and for every roughness
\* in [0,1] the minimum changes nothing: hIndex = rLow+1, which ranges over
\* 1..COMP and is not limited to a row index 0..COMP-1.
C16_HighRowIsLowRowPlusOne ==
  (caller.op = "E" /\ caller.pc \in {"switch", "done"} /\ InRange(caller.roughness))
  => /\ caller.hIndex = Min(RoughBucket(caller.roughness) + 1, COMP * COMP - 1)
     /\ caller.hIndex = RoughBucket(caller.roughness) + 1
     /\ caller.hIndex \in 1 .. COMP

\* index() has left hIndex = COMP, one past the last row, at roughness = 1.0.
C16_Witness ==
  /\ caller.op = "E"
  /\ caller.pc = "switch"
  /\ caller.roughness = One
  /\ caller.hIndex = COMP
  /\ caller.iHigh >= COMP * COMP

\* C17: table() returns exactly the sequence given to the constructor (same
\* elements, same order), and after any sequence of table() and callBack()
\* calls the stored table and callback are the constructor's arguments and
\* the object has never invoked the callback.
C17_EventIsPassiveHolder ==
  event.constructed
  => /\ event.mTileSampleIdTable = event.argTable
     /\ event.mCallBack = event.argCallBack
     /\ event.invocations = 0
     /\ (event.called = "table") => (event.tableResult = event.argTable)
     /\ (event.tableResult /= <<>>) => (event.tableResult = event.argTable)
     /\ (event.callBackResult /= "none") => (event.callBackResult = event.argCallBack)

\* table() and then callBack() were called on an event built from an
\* unsorted table with a repeated sample id.
C17_Witness ==
  /\ event.constructed
  /\ event.called = "callBack"
  /\ Len(event.tableResult) = MaxTableLen
  /\ \E i, j \in 1 .. Len(event.tableResult) :
       i < j /\ event.tableResult[i] > event.tableResult[j]
  /\ \E i, j \in 1 .. Len(event.tableResult) :
       i < j /\ event.tableResult[i] = event.tableResult[j]
  /\ event.callBackResult = event.argCallBack

=============================================================================
